---- MODULE Spec2Model ----
(***************************************************************************)
(* A model of ReactScan.py: the fingerprint catalog, the two page fetchers,*)
(* the script scanner, the single-target detector, the batch coordinator   *)
(* that runs detectors under an asyncio semaphore, and the reader of the   *)
(* batch input file.                                                       *)
(*                                                                         *)
(* Strings are TLA+ strings; substring search and lower-casing are         *)
(* computed character by character.  The catalog's Chinese descriptions    *)
(* and message prefixes are rendered in ASCII (one distinct ASCII text per *)
(* distinct source text).  A Python None is the empty tuple <<>> and a     *)
(* present value v is the one-element tuple <<v>>.                         *)
(***************************************************************************)
EXTENDS Integers, Sequences, FiniteSets, TLC

(* ------------------------------ bounds --------------------------------- *)

\* the longest batch input list
MaxUrls == 2
\* the largest concurrency limit tried
MaxConcurrency == 2

(* ------------------------- strings and lists --------------------------- *)

None == <<>>

Some(v) == <<v>>

Range(s) == {s[i] : i \in 1..Len(s)}

UpperChars == "ABCDEFGHIJKLMNOPQRSTUVWXYZ"

LowerChars == "abcdefghijklmnopqrstuvwxyz"

\* the lower-case letter of every upper-case letter
LowerOf ==
    [c \in {SubSeq(UpperChars, i, i) : i \in 1..Len(UpperChars)} |->
        LET i == CHOOSE j \in 1..Len(UpperChars) : SubSeq(UpperChars, j, j) = c
        IN  SubSeq(LowerChars, i, i)]

\* str.lower() on one character
LowerChar(c) == IF c \in DOMAIN LowerOf THEN LowerOf[c] ELSE c

RECURSIVE Lower(_)
\* str.lower()
Lower(s) ==
    IF Len(s) = 0 THEN ""
    ELSE LowerChar(SubSeq(s, 1, 1)) \o Lower(SubSeq(s, 2, Len(s)))

\* `needle in hay`, and re.search(re.escape(needle), hay)
Contains(hay, needle) ==
    \E i \in 1..(Len(hay) - Len(needle) + 1) :
        SubSeq(hay, i, i + Len(needle) - 1) = needle

\* s.startswith(prefix)
startswith(s, prefix) == Len(s) >= Len(prefix) /\ SubSeq(s, 1, Len(prefix)) = prefix

\* the characters str.strip() removes
Whitespace == {" ", "\t", "\n", "\r"}

RECURSIVE lstrip(_)
lstrip(s) ==
    IF Len(s) > 0 /\ SubSeq(s, 1, 1) \in Whitespace
    THEN lstrip(SubSeq(s, 2, Len(s)))
    ELSE s

RECURSIVE rstrip(_)
rstrip(s) ==
    IF Len(s) > 0 /\ SubSeq(s, Len(s), Len(s)) \in Whitespace
    THEN rstrip(SubSeq(s, 1, Len(s) - 1))
    ELSE s

\* str.strip()
strip(s) == rstrip(lstrip(s))

RECURSIVE Join(_, _)
\* sep.join(parts)
Join(sep, parts) ==
    IF Len(parts) = 0 THEN ""
    ELSE IF Len(parts) = 1 THEN parts[1]
    ELSE parts[1] \o sep \o Join(sep, Tail(parts))

RECURSIVE Flatten(_)
\* the concatenation of a list of lists
Flatten(ss) ==
    IF Len(ss) = 0 THEN <<>> ELSE Head(ss) \o Flatten(Tail(ss))

\* the list is left as it is
DedupNone(items) == items

RECURSIVE Dedup(_)
\* list(dict.fromkeys(items)): first occurrences, in order
Dedup(items) ==
    IF Len(items) = 0 THEN <<>>
    ELSE LET front == Dedup(SubSeq(items, 1, Len(items) - 1))
             last  == items[Len(items)]
         IN  IF last \in Range(front) THEN front ELSE Append(front, last)

(* ------------------------------ catalog -------------------------------- *)

global_vars ==
    << "window.React", "window.ReactDOM",
       "window.__REACT_DEVTOOLS_GLOBAL_HOOK__", "window.ReactDOMClient" >>

dom_attrs ==
    << "data-reactroot", "data-reactid", "data-react-checksum",
       "data-react-server-components" >>

js_url_patterns ==
    << "react.js", "react-dom.js", "react.production.min.js",
       "react-dom.production.min.js", "chunk-react-", "vendors~react~",
       "jsx-runtime", "react-server", "react-dom-client" >>

js_keywords ==
    << "React.createElement", "jsx(", "jsxs(", "useState", "useEffect",
       "React.createRoot", "ReactDOM.createRoot", "react-router",
       "react-redux", "antd" >>

auxiliary ==
    << [keywords |-> <<"render()", "React.Component">>,
        desc |-> "React class component core method"],
       [keywords |-> <<"render()", "React.PureComponent">>,
        desc |-> "React pure component core method"],
       [keywords |-> <<"render()", "this.props">>,
        desc |-> "React component props reference"],
       [keywords |-> <<"render()", "this.state">>,
        desc |-> "React component state reference"],
       [keywords |-> <<"componentDidMount", "componentDidUpdate">>,
        desc |-> "React lifecycle methods"],
       [keywords |-> <<"createRoot", "React">>,
        desc |-> "React 18+ render method"] >>

(* --------------------------- evidence texts ---------------------------- *)

\* f"[...] global variable: {var}"
GlobalVarItem(var) == "[core] React global variable present: " \o var

\* f"[...] DOM attribute: {attr}"
DomAttrItem(attr) == "[core] DOM has React attribute: " \o attr

\* f"[...] JS URL: {js_url} (match: {pattern})"
JsUrlItem(js_url, pattern) ==
    "[core] JS URL has React pattern: " \o js_url \o " (match: " \o pattern \o ")"

\* f"JS source ... core API: {keyword}"
JsKeywordItem(keyword) == "JS source has React core API: " \o keyword

\* f"{group['desc']} (match: {', '.join(group['keywords'])})"
AuxItem(group) ==
    group.desc \o " (match: " \o Join(", ", group.keywords) \o ")"

(* --------------------------- the environment --------------------------- *)

\* the address a redirecting server sends a request for url to
Redirected(url) == "https://www." \o SubSeq(url, 8, Len(url))

InputUrls == {"http://a.test/", "http://b.test/", "http://a.test/#top"}

\* markup as BeautifulSoup sees it: the attribute names carried by some
\* element, and the src values of the script tags in document order
AttrSets ==
    { {}, {"class"}, {"data-reactroot"},
      {"class", "data-reactid", "data-react-checksum"} }

SrcLists ==
    { <<>>, <<"">>, <<"app.js">>, <<"app.js", "lib.js">>,
      <<"static/react-dom.production.min.js", "static/react.js">>,
      <<"https://cdn.test/Chunk-React-1.js">>,
      <<"app.js", "//[">>, <<"//[", "app.js">> }

Markups == [attrs : AttrSets, srcs : SrcLists]

Statuses == {200, 203, 204, 404, 500}

\* what the web can answer to the primary request for url; url in a
\* response is the address the request ended at (redirects followed)
PageResponses(url) ==
    {[kind |-> "exception", message |-> m] : m \in {"timeout", "connection refused"}}
    \cup {[kind |-> "response", url |-> u, status |-> st, html |-> None] :
            u \in {url, Redirected(url)}, st \in Statuses}
    \cup {[kind |-> "response", url |-> u, status |-> 200, html |-> Some(h)] :
            u \in {url, Redirected(url)}, h \in Markups}

\* the el.src values a browser reports
BrowserSrcLists ==
    { <<>>, <<"">>, <<"https://cdn.test/app.js">>,
      <<"https://cdn.test/app.js", "https://cdn.test/jsx-runtime.js">> }

\* what a browser run on url can do
PlaywrightRuns(url) ==
    [raise_at : {"goto", "eval_on_selector_all", "evaluate", "none"},
     raise_var : {2},
     url : {url, Redirected(url)},
     html : [attrs : AttrSets, srcs : {<<>>}],
     srcs : BrowserSrcLists,
     vars : {{}, {"window.React"}, {"window.ReactDOM", "window.React"}}]

JsBodies ==
    { "", "render()", "this.props", "render(){return this.props.x}",
      "RENDER() THIS.STATE", "render(){this.props;this.state}",
      "componentDidMount componentDidUpdate",
      "React.createElement(App)", "ReactDOM.createRoot(el)" }

\* what the web can answer to a request for a script body
JsResponses ==
    {[kind |-> "exception"]}
    \cup {[kind |-> "response", status |-> st, body |-> None] : st \in {200, 404}}
    \cup {[kind |-> "response", status |-> 200, body |-> Some(b)] : b \in JsBodies}

\* the answers tried when several targets run together
BatchPageResponses(url) ==
    { [kind |-> "exception", message |-> "timeout"],
      [kind |-> "response", url |-> Redirected(url), status |-> 404, html |-> None],
      [kind |-> "response", url |-> url, status |-> 200,
       html |-> Some([attrs |-> {"data-reactroot"}, srcs |-> <<>>])],
      [kind |-> "response", url |-> url, status |-> 200,
       html |-> Some([attrs |-> {"data-reactroot"}, srcs |-> <<"//[">>])],
      [kind |-> "response", url |-> Redirected(url), status |-> 200,
       html |-> Some([attrs |-> {}, srcs |-> <<"app.js", "lib.js">>])] }

BatchJsResponses ==
    { [kind |-> "exception"],
      [kind |-> "response", status |-> 200, body |-> Some("render(){return this.props.x}")] }

\* the browser runs tried when several targets run together
BatchPlaywrightRuns(url) ==
    { [raise_at |-> "goto", raise_var |-> 2, url |-> url,
       html |-> [attrs |-> {}, srcs |-> <<>>], srcs |-> <<>>, vars |-> {}],
      [raise_at |-> "evaluate", raise_var |-> 2, url |-> Redirected(url),
       html |-> [attrs |-> {"data-reactroot"}, srcs |-> <<>>],
       srcs |-> <<"https://cdn.test/app.js">>, vars |-> {"window.React"}],
      [raise_at |-> "none", raise_var |-> 2, url |-> url,
       html |-> [attrs |-> {}, srcs |-> <<>>],
       srcs |-> <<"https://cdn.test/app.js", "https://cdn.test/jsx-runtime.js">>,
       vars |-> {"window.React"}] }

\* the files given to run_batch_from_file: None when open() raises,
\* otherwise the lines as iterating the file yields them
FileInputs ==
    { None,
      Some(<<>>),
      Some(<<"\n", "  \n">>),
      Some(<<"# targets\n", "ftp://a.test/\n">>),
      Some(<<"a.test\n", "HTTP://A.TEST/\n", "see http://a.test/\n">>),
      Some(<<"  http://a.test/ \r\n">>),
      Some(<<"# targets\n", "http://a.test/\n", "\n", "b.test\n", "\thttp://b.test/">>) }

(* ------------------------- check_js_content ---------------------------- *)

\* re.search(re.escape(keyword.lower()), js_lower)
KeywordMatches(keyword, js_lower) == Contains(js_lower, Lower(keyword))

\* any() in place of all()
GroupMatchesAny(group, js_lower) ==
    \E k \in 1..Len(group.keywords) :
        Contains(js_lower, Lower(group.keywords[k]))

\* all(re.search(re.escape(kw), js_lower) for kw in group_kws)
GroupMatches(group, js_lower) ==
    \A k \in 1..Len(group.keywords) :
        Contains(js_lower, Lower(group.keywords[k]))

\* the scan of one successfully read script body
ScanJsContent(js_content) ==
    LET js_lower == Lower(js_content)
        KwHit(keyword) == KeywordMatches(keyword, js_lower)
        GroupHit(group) == GroupMatches(group, js_lower)
        keywords == SelectSeq(js_keywords, KwHit)
        groups == SelectSeq(auxiliary, GroupHit)
    IN  [core      |-> [k \in 1..Len(keywords) |-> JsKeywordItem(keywords[k])],
         auxiliary |-> [k \in 1..Len(groups) |-> AuxItem(groups[k])]]

\* ScanJsContent, computed once for each body the environment serves
ScanOfBody == [js_content \in JsBodies |-> ScanJsContent(js_content)]

\* the failure is recorded as an item
JsFailureRecorded == [core |-> <<"JS fetch failed">>, auxiliary |-> <<>>]

\* what a failed script fetch leaves of `result`
JsFailureResult == [core |-> <<>>, auxiliary |-> <<>>]

\* check_js_content on one response of the script URL.  resp.kind is
\* "exception" when session.get raises; otherwise resp.status is the status
\* and resp.body the text, or None when response.text() raises.
check_js_content(resp) ==
    IF resp.kind = "exception" THEN JsFailureResult
    ELSE IF resp.status # 200 THEN [core |-> <<>>, auxiliary |-> <<>>]
    ELSE IF resp.body = None THEN JsFailureResult
    ELSE IF resp.body[1] \in DOMAIN ScanOfBody THEN ScanOfBody[resp.body[1]]
    ELSE ScanJsContent(resp.body[1])

(* ------------------------------ fetchers ------------------------------- *)

\* result = {"html": None, "js_urls": [], "global_vars": [], ...}
NewFetchResult ==
    [html |-> None, js_urls |-> <<>>, global_vars |-> <<>>,
     redirect_url |-> None, error |-> None]

IsAbsolute(ref) ==
    \/ Len(ref) >= 7 /\ SubSeq(ref, 1, 7) = "http://"
    \/ Len(ref) >= 8 /\ SubSeq(ref, 1, 8) = "https://"

\* urllib.parse.urljoin raises ValueError("Invalid IPv6 URL") on a
\* reference with an unbalanced bracket
UrljoinRaises(ref) == Contains(ref, "[") /\ ~Contains(ref, "]")

\* urljoin(base, ref) for a base ending in "/" and a reference that is
\* absolute or a plain relative path
urljoin(base, ref) == IF IsAbsolute(ref) THEN ref ELSE base \o ref

RECURSIVE CollectJsUrls(_, _, _)
\* the loop over script tags: srcs are the tags' src values in document
\* order, "" for a tag without src.  Stops where urljoin raises.
CollectJsUrls(redirect_url, srcs, js_urls) ==
    IF Len(srcs) = 0 THEN [js_urls |-> js_urls, raised |-> FALSE]
    ELSE IF Head(srcs) = "" THEN CollectJsUrls(redirect_url, Tail(srcs), js_urls)
    ELSE IF UrljoinRaises(Head(srcs)) THEN [js_urls |-> js_urls, raised |-> TRUE]
    ELSE CollectJsUrls(redirect_url, Tail(srcs),
                       Append(js_urls, urljoin(redirect_url, Head(srcs))))

RECURSIVE StripFragment(_)
\* the address without its "#fragment"
StripFragment(address) ==
    IF Len(address) = 0 THEN ""
    ELSE IF SubSeq(address, 1, 1) = "#" THEN ""
    ELSE SubSeq(address, 1, 1) \o StripFragment(SubSeq(address, 2, Len(address)))

\* str(response.url): aiohttp's ClientResponse.url is the address the
\* request ended at with its fragment removed
ResponseUrl(address) == StripFragment(address)

\* the error text of a non-200 response
HttpStatusError(status, redirect_url) ==
    "HTTP status abnormal: " \o ToString(status)
        \o " (final URL: " \o redirect_url \o ")"

\* fetch_page on one response.  resp.kind is "exception" when session.get
\* raises (resp.message its text); otherwise resp.url is the address reached
\* after redirects, resp.status the status and resp.html the parsed text
\* [attrs, srcs], or None when response.text() raises.
fetch_page(url, resp) ==
    IF resp.kind = "exception"
    THEN [NewFetchResult EXCEPT !.error = Some("page load failed: " \o resp.message)]
    ELSE LET redirect_url == ResponseUrl(resp.url)
             result == [NewFetchResult EXCEPT !.redirect_url = Some(redirect_url)]
         IN  IF resp.status # 200
             THEN [result EXCEPT !.error = Some(HttpStatusError(resp.status, redirect_url))]
             ELSE IF resp.html = None
             THEN [result EXCEPT !.error = Some("page load failed: payload error")]
             ELSE LET c == CollectJsUrls(redirect_url, resp.html[1].srcs, <<>>)
                  IN  [result EXCEPT
                         !.html = resp.html,
                         !.js_urls = c.js_urls,
                         !.error = IF c.raised
                                   THEN Some("page load failed: Invalid IPv6 URL")
                                   ELSE None]

\* fetch_with_playwright on one browser run.  run.raise_at names the call
\* that raises: "goto" (launch, new_page, goto or wait_for_load_state),
\* "eval_on_selector_all", "evaluate" (at catalog position run.raise_var),
\* or "none".  run.url is page.url, run.html the rendered markup
\* [attrs, srcs], run.srcs the el.src values and run.vars the defined globals.
fetch_with_playwright(url, run) ==
    LET failed == Some("Playwright load failed: " \o run.raise_at)
        loaded == [NewFetchResult EXCEPT !.html = Some(run.html),
                                         !.redirect_url = Some(run.url)]
        scripts == [loaded EXCEPT !.js_urls = SelectSeq(run.srcs, LAMBDA u : u # "")]
        Defined(var) == var \in run.vars
    IN  IF run.raise_at = "goto"
        THEN [NewFetchResult EXCEPT !.error = failed]
        ELSE IF run.raise_at = "eval_on_selector_all"
        THEN [loaded EXCEPT !.error = failed]
        ELSE IF run.raise_at = "evaluate"
        THEN [scripts EXCEPT
                !.global_vars = SelectSeq(SubSeq(global_vars, 1, run.raise_var - 1), Defined),
                !.error = failed]
        ELSE [scripts EXCEPT !.global_vars = SelectSeq(global_vars, Defined)]

(* -------------------------- detect_single_url -------------------------- *)

NewResult(url) ==
    [url |-> url, final_url |-> url, is_react |-> FALSE, is_suspected |-> FALSE,
     core_evidence |-> <<>>, aux_evidence |-> <<>>, error |-> None]

\* the markup is looked at in place of the error
FetchFailedNoHtml(page_data) == page_data.html = None

\* if page_data["error"]
FetchFailed(page_data) == page_data.error # None

\* the error is looked at only after the static extraction
ErrorResultAfterExtraction(result, page_data) ==
    [result EXCEPT
        !.error = page_data.error,
        !.core_evidence =
            IF page_data.html # None
            THEN LET attrs == SelectSeq(dom_attrs,
                                        LAMBDA attr : attr \in page_data.html[1].attrs)
                 IN  [k \in 1..Len(attrs) |-> DomAttrItem(attrs[k])]
            ELSE <<>>]

\* if page_data["error"]: result["error"] = page_data["error"]; return result
ErrorResult(result, page_data) == [result EXCEPT !.error = page_data.error]

\* if page_data["redirect_url"]: result["final_url"] = page_data["redirect_url"]
RecordFinalUrl(result, page_data) ==
    IF page_data.redirect_url # None
    THEN [result EXCEPT !.final_url = page_data.redirect_url[1]]
    ELSE result

\* 2.1 global variables
GlobalVarEvidence(page_data) ==
    [k \in 1..Len(page_data.global_vars) |-> GlobalVarItem(page_data.global_vars[k])]

\* 2.2 DOM attributes: soup.find(attrs={attr: True}) for each catalog attr
DomEvidence(page_data) ==
    IF page_data.html # None
    THEN LET attrs == SelectSeq(dom_attrs, LAMBDA attr : attr \in page_data.html[1].attrs)
         IN  [k \in 1..Len(attrs) |-> DomAttrItem(attrs[k])]
    ELSE <<>>

\* the patterns one js_url matches, in catalog order:
\* pattern.lower() in js_url.lower()
UrlPatternEvidence(js_url) ==
    LET url_lower == Lower(js_url)
        patterns == SelectSeq(js_url_patterns,
                              LAMBDA pattern : Contains(url_lower, Lower(pattern)))
    IN  [k \in 1..Len(patterns) |-> JsUrlItem(js_url, patterns[k])]

\* the script URLs the fetchers can report in this environment
KnownJsUrls ==
    { js_url : js_url \in
        UNION { UNION { Range(fetch_page(url, resp).js_urls) :
                          resp \in PageResponses(url) \cup BatchPageResponses(url) } :
                  url \in InputUrls }
        \cup UNION { Range(srcs) : srcs \in BrowserSrcLists } }

\* UrlPatternEvidence, computed once for each of them
PatternsOfUrl == [js_url \in KnownJsUrls |-> UrlPatternEvidence(js_url)]

\* 2.3 JS URL patterns
JsUrlEvidence(page_data) ==
    Flatten([i \in 1..Len(page_data.js_urls) |->
                IF page_data.js_urls[i] \in DOMAIN PatternsOfUrl
                THEN PatternsOfUrl[page_data.js_urls[i]]
                ELSE UrlPatternEvidence(page_data.js_urls[i])])

\* stages 2.1-2.3 appended to result["core_evidence"]
StaticExtraction(result, page_data) ==
    [result EXCEPT !.core_evidence =
        @ \o GlobalVarEvidence(page_data) \o DomEvidence(page_data)
          \o JsUrlEvidence(page_data)]

\* for js_res in js_results: extend both lists
ExtendWithJsResults(result, js_results) ==
    [result EXCEPT
        !.core_evidence = @ \o Flatten([k \in 1..Len(js_results) |-> js_results[k].core]),
        !.aux_evidence  = @ \o Flatten([k \in 1..Len(js_results) |-> js_results[k].auxiliary])]

\* the auxiliary list is not deduplicated
DedupEvidenceCoreOnly(result) == [result EXCEPT !.core_evidence = Dedup(@)]

\* 3. dedup
DedupEvidence(result) ==
    [result EXCEPT !.core_evidence = Dedup(@), !.aux_evidence = Dedup(@)]

\* `if aux_count == 1` in place of the last `elif`
JudgeIndependentSuspected(result) ==
    LET core_count == Len(result.core_evidence)
        aux_count  == Len(result.aux_evidence)
        judged == IF core_count >= 1 THEN [result EXCEPT !.is_react = TRUE]
                  ELSE IF aux_count >= 2 THEN [result EXCEPT !.is_react = TRUE]
                  ELSE result
    IN  IF aux_count = 1 THEN [judged EXCEPT !.is_suspected = TRUE] ELSE judged

\* the auxiliary thresholds confused: any auxiliary item alone is Suspected
JudgeAuxSuspected(result) ==
    LET core_count == Len(result.core_evidence)
        aux_count  == Len(result.aux_evidence)
    IN  IF core_count >= 1 THEN [result EXCEPT !.is_react = TRUE]
        ELSE IF aux_count >= 1 THEN [result EXCEPT !.is_suspected = TRUE]
        ELSE result

\* 4. verdict
Judge(result) ==
    LET core_count == Len(result.core_evidence)
        aux_count  == Len(result.aux_evidence)
    IN  IF core_count >= 1 THEN [result EXCEPT !.is_react = TRUE]
        ELSE IF aux_count >= 2 THEN [result EXCEPT !.is_react = TRUE]
        ELSE IF aux_count = 1 THEN [result EXCEPT !.is_suspected = TRUE]
        ELSE result

\* detect_single_url as a function of the answers its own requests get:
\* page_resp to the page request, js_resps[k] to the k-th script request
DetectAlone(url, playwright, page_resp, js_resps) ==
    LET pd == IF playwright THEN fetch_with_playwright(url, page_resp)
              ELSE fetch_page(url, page_resp)
    IN  IF FetchFailed(pd)
        THEN ErrorResult(NewResult(url), pd)
        ELSE Judge(DedupEvidence(ExtendWithJsResults(
                 StaticExtraction(RecordFinalUrl(NewResult(url), pd), pd),
                 [k \in 1..Len(js_resps) |-> check_js_content(js_resps[k])])))

(* ------------------------------- state --------------------------------- *)

VARIABLES
    urls,            \* the input list of detect_batch_urls
    concurrency,     \* self.concurrency
    use_playwright,  \* self.use_playwright
    sem,             \* the value of the asyncio.Semaphore
    pc,              \* pc[i]: where task i of the gather is
    task_result,     \* task_result[i]: the `result` dict of task i's detect_single_url
    task_page_data,  \* task_page_data[i]: the page_data of task i
    task_js_results, \* task_js_results[i][k]: None, or what check_js_content returned
    finished,        \* the task indices in the order the tasks returned
    results,         \* None, or the list detect_batch_urls returned
    page_in,         \* page_in[i]: the answer task i's page request got
    js_in,           \* js_in[i][k]: None, or the answer the k-th script request got
    js_finished,     \* js_finished[i]: the script requests of task i in the order they returned
    file_lines,      \* the lines of the file given to run_batch_from_file
    main_pc,         \* "file", "batch", "returned": where run_batch_from_file is;
                     \* "direct": detect_batch_urls was called without it
    run_return       \* None, or what run_batch_from_file returned

vars ==
    << urls, concurrency, use_playwright, sem, pc, task_result, task_page_data,
       task_js_results, finished, results, page_in, js_in, js_finished,
       file_lines, main_pc, run_return >>

\* the state of run_batch_from_file
file_vars == << file_lines, main_pc, run_return >>

Tasks == 1..Len(urls)

\* the empty mapping
Empty == [i \in {} |-> None]

\* asyncio.gather starts bounded_detect(url) for every url, in order
InitWith(lists, limits, modes) ==
    /\ urls \in lists
    /\ concurrency \in limits
    /\ use_playwright \in modes
    /\ sem = concurrency
    /\ pc = [i \in 1..Len(urls) |-> "pending"]
    /\ task_result = Empty
    /\ task_page_data = Empty
    /\ task_js_results = Empty
    /\ finished = <<>>
    /\ results = None
    /\ page_in = Empty
    /\ js_in = Empty
    /\ js_finished = Empty
    /\ file_lines = <<>>
    /\ main_pc = "direct"
    /\ run_return = None

\* the batch inputs tried: a.test, b.test, a.test, ... up to MaxUrls entries
UrlLists ==
    { [k \in 1..n |-> IF k % 2 = 1 THEN "http://a.test/" ELSE "http://b.test/"] :
        n \in 1..MaxUrls }

Init == InitWith(UrlLists, 1..MaxConcurrency, BOOLEAN)

\* the targets tried alone: a plain address and one with a fragment
SingleUrls == {"http://a.test/", "http://a.test/#top"}

\* one target, every answer of the environment
InitSingle == InitWith([1..1 -> SingleUrls], {1}, BOOLEAN)

(* ------------------------------ actions -------------------------------- *)

\* the limit is not enforced
CanAcquireAlways(value) == TRUE

\* Semaphore.acquire proceeds without waiting
CanAcquire(value) == value > 0

\* the slot is given back on the success path only
ReleaseOnSuccess(value, failed) == IF failed THEN value ELSE value + 1

\* Semaphore.release, on leaving `async with semaphore` (failed: the
\* detection ended with error set)
Release(value, failed) == value + 1

\* the two evidence lists are the same list objects in every task's dict
SetResultSharedEvidence(res, i, r) ==
    [j \in DOMAIN res \cup {i} |->
        IF j = i THEN r
        ELSE [res[j] EXCEPT !.core_evidence = r.core_evidence,
                            !.aux_evidence = r.aux_evidence]]

\* task i's own `result` dict is bound to r
SetResult(res, i, r) == [j \in DOMAIN res \cup {i} |-> IF j = i THEN r ELSE res[j]]

\* results collected as the tasks finish
GatherAsCompleted(res, order) == [k \in 1..Len(finished) |-> res[finished[k]]]

\* asyncio.gather's return value: the tasks' results in argument order
GatherResults(res, order) == [i \in 1..Len(order) |-> res[i]]

\* bounded_detect(urls[i]) enters `async with semaphore` (waiters are woken
\* first come first served) and detect_single_url runs to the page request
Acquire(i) ==
    /\ pc[i] = "pending"
    /\ \A j \in 1..(i - 1) : pc[j] # "pending"
    /\ CanAcquire(sem)
    /\ sem' = sem - 1
    /\ pc' = [pc EXCEPT ![i] = "fetching"]
    /\ task_result' = SetResult(task_result, i, NewResult(urls[i]))
    /\ UNCHANGED << urls, concurrency, use_playwright, task_page_data, task_js_results,
                    finished, results, page_in, js_in, js_finished >>
    /\ UNCHANGED file_vars

\* detect_single_url returns r: the semaphore is released, the task is done
Return(i, r) ==
    /\ task_result' = SetResult(task_result, i, r)
    /\ pc' = [pc EXCEPT ![i] = "done"]
    /\ sem' = Release(sem, r.error # None)
    /\ finished' = Append(finished, i)

\* only the first script is requested
NewJsTasksFirstOnly(js_urls) == [k \in 1..1 |-> None]

\* js_tasks: one check_js_content per entry of js_urls, none returned yet
NewJsTasks(js_urls) == [k \in 1..Len(js_urls) |-> None]

\* detect_single_url from the page fetch's return to its next await
AfterFetch(i, pd) ==
    /\ task_page_data' = (i :> pd) @@ task_page_data
    /\ IF FetchFailed(pd)
       THEN /\ Return(i, ErrorResult(task_result[i], pd))
            /\ UNCHANGED << task_js_results, js_in, js_finished >>
       ELSE LET r == StaticExtraction(RecordFinalUrl(task_result[i], pd), pd)
            IN  IF Len(pd.js_urls) = 0
                THEN /\ Return(i, Judge(DedupEvidence(r)))
                     /\ UNCHANGED << task_js_results, js_in, js_finished >>
                ELSE /\ task_result' = SetResult(task_result, i, r)
                     /\ pc' = [pc EXCEPT ![i] = "scanning"]
                     /\ task_js_results' = (i :> NewJsTasks(pd.js_urls)) @@ task_js_results
                     /\ js_in' = (i :> [k \in DOMAIN NewJsTasks(pd.js_urls) |-> None]) @@ js_in
                     /\ js_finished' = (i :> <<>>) @@ js_finished
                     /\ UNCHANGED << sem, finished >>

\* the aiohttp page request of task i is answered by resp
PageFetched(i, resp) ==
    /\ pc[i] = "fetching"
    /\ ~use_playwright
    /\ page_in' = (i :> resp) @@ page_in
    /\ AfterFetch(i, fetch_page(urls[i], resp))
    /\ UNCHANGED << urls, concurrency, use_playwright, results >>
    /\ UNCHANGED file_vars

\* the browser run of task i ends as run
PlaywrightFetched(i, run) ==
    /\ pc[i] = "fetching"
    /\ use_playwright
    /\ page_in' = (i :> run) @@ page_in
    /\ AfterFetch(i, fetch_with_playwright(urls[i], run))
    /\ UNCHANGED << urls, concurrency, use_playwright, results >>
    /\ UNCHANGED file_vars

\* the script requests task i has issued: one per entry of js_urls
ScriptSlots(i) == IF i \in DOMAIN task_js_results THEN DOMAIN task_js_results[i] ELSE {}

\* the k-th script request of task i is answered by resp
JsFetched(i, k, resp) ==
    /\ pc[i] = "scanning"
    /\ task_js_results[i][k] = None
    /\ task_js_results' = [task_js_results EXCEPT ![i][k] = Some(check_js_content(resp))]
    /\ js_in' = [js_in EXCEPT ![i][k] = Some(resp)]
    /\ js_finished' = [js_finished EXCEPT ![i] = Append(@, k)]
    /\ UNCHANGED << urls, concurrency, use_playwright, sem, pc, task_result,
                    task_page_data, finished, results, page_in >>
    /\ UNCHANGED file_vars

\* the script results in the order the requests returned
JsGatherAsCompleted(js_res, order) == [k \in 1..Len(order) |-> js_res[order[k]][1]]

\* js_results: the inner asyncio.gather's return value, the script results
\* in the order of js_tasks (order: the order the requests returned in)
JsGatherResults(js_res, order) == [k \in DOMAIN js_res |-> js_res[k][1]]

\* the inner gather of task i returns; detect_single_url runs to its end
Aggregate(i) ==
    /\ pc[i] = "scanning"
    /\ \A k \in DOMAIN task_js_results[i] : task_js_results[i][k] # None
    /\ LET got == JsGatherResults(task_js_results[i], js_finished[i])
       IN  Return(i, Judge(DedupEvidence(ExtendWithJsResults(task_result[i], got))))
    /\ UNCHANGED << urls, concurrency, use_playwright, task_page_data, task_js_results,
                    results, page_in, js_in, js_finished >>
    /\ UNCHANGED file_vars

\* the outer gather returns
BatchReturn ==
    /\ main_pc \in {"direct", "batch"}
    /\ results = None
    /\ \A i \in Tasks : pc[i] = "done"
    /\ results' = Some(GatherResults(task_result, urls))
    /\ UNCHANGED << urls, concurrency, use_playwright, sem, pc, task_result,
                    task_page_data, task_js_results, finished, page_in, js_in,
                    js_finished >>
    /\ UNCHANGED file_vars

\* every line that is not blank is taken as a URL
ValidUrlsAnyLine(lines) ==
    SelectSeq([k \in 1..Len(lines) |-> strip(lines[k])], LAMBDA line : line # "")

\* urls = [line.strip() for line in f
\*         if line.strip().startswith(("http://", "https://"))]
ValidUrls(lines) ==
    SelectSeq([k \in 1..Len(lines) |-> strip(lines[k])],
              LAMBDA line : startswith(line, "http://") \/ startswith(line, "https://"))

\* run_batch_from_file up to asyncio.run(self.detect_batch_urls(urls)):
\* when open() raises or no URL is left, the except clause prints the
\* failure and returns []
RunBatchFromFile ==
    /\ main_pc = "file"
    /\ IF file_lines = None \/ Len(ValidUrls(file_lines[1])) = 0
       THEN /\ main_pc' = "failed"
            /\ run_return' = Some(<<>>)
            /\ UNCHANGED << urls, pc >>
       ELSE /\ main_pc' = "batch"
            /\ urls' = ValidUrls(file_lines[1])
            /\ pc' = [i \in 1..Len(urls') |-> "pending"]
            /\ UNCHANGED run_return
    /\ UNCHANGED << concurrency, use_playwright, sem, task_result, task_page_data,
                    task_js_results, finished, results, page_in, js_in, js_finished,
                    file_lines >>

\* asyncio.run returns the list detect_batch_urls returned
RunBatchReturn ==
    /\ main_pc = "batch"
    /\ results # None
    /\ main_pc' = "returned"
    /\ run_return' = results
    /\ UNCHANGED << urls, concurrency, use_playwright, sem, pc, task_result,
                    task_page_data, task_js_results, finished, results, page_in,
                    js_in, js_finished, file_lines >>

Next ==
    \/ \E i \in Tasks : Acquire(i)
    \/ \E i \in Tasks : \E resp \in BatchPageResponses(urls[i]) : PageFetched(i, resp)
    \/ \E i \in Tasks : \E run \in BatchPlaywrightRuns(urls[i]) : PlaywrightFetched(i, run)
    \/ \E i \in Tasks : \E k \in ScriptSlots(i) : \E resp \in BatchJsResponses :
          JsFetched(i, k, resp)
    \/ \E i \in Tasks : Aggregate(i)
    \/ BatchReturn

Spec == Init /\ [][Next]_vars

\* The event loop runs every task that is ready, and every request is
\* answered, fails or reaches its timeout (self.timeout).
Fairness ==
    /\ WF_vars(\E i \in Tasks : Acquire(i))
    /\ WF_vars(\E i \in Tasks : \E resp \in BatchPageResponses(urls[i]) : PageFetched(i, resp))
    /\ WF_vars(\E i \in Tasks : \E run \in BatchPlaywrightRuns(urls[i]) :
                  PlaywrightFetched(i, run))
    /\ WF_vars(\E i \in Tasks : \E k \in ScriptSlots(i) : \E resp \in BatchJsResponses :
                  JsFetched(i, k, resp))
    /\ WF_vars(\E i \in Tasks : Aggregate(i))
    /\ WF_vars(BatchReturn)

FairSpec == Init /\ [][Next]_vars /\ Fairness

\* one detect_single_url run against every answer of the environment
NextSingle ==
    \/ \E i \in Tasks : Acquire(i)
    \/ \E i \in Tasks : \E resp \in PageResponses(urls[i]) : PageFetched(i, resp)
    \/ \E i \in Tasks : \E run \in PlaywrightRuns(urls[i]) : PlaywrightFetched(i, run)
    \/ \E i \in Tasks : \E k \in ScriptSlots(i) : \E resp \in JsResponses :
          JsFetched(i, k, resp)
    \/ \E i \in Tasks : Aggregate(i)
    \/ BatchReturn

SpecSingle == InitSingle /\ [][NextSingle]_vars

\* run_batch_from_file is called on a file
InitFile ==
    /\ file_lines \in FileInputs
    /\ main_pc = "file"
    /\ run_return = None
    /\ urls = <<>>
    /\ concurrency \in 1..MaxConcurrency
    /\ use_playwright \in BOOLEAN
    /\ sem = concurrency
    /\ pc = <<>>
    /\ task_result = Empty
    /\ task_page_data = Empty
    /\ task_js_results = Empty
    /\ finished = <<>>
    /\ results = None
    /\ page_in = Empty
    /\ js_in = Empty
    /\ js_finished = Empty

NextFile ==
    \/ RunBatchFromFile
    \/ \E i \in Tasks : Acquire(i)
    \/ \E i \in Tasks : \E resp \in BatchPageResponses(urls[i]) : PageFetched(i, resp)
    \/ \E i \in Tasks : \E run \in BatchPlaywrightRuns(urls[i]) : PlaywrightFetched(i, run)
    \/ \E i \in Tasks : \E k \in ScriptSlots(i) : \E resp \in BatchJsResponses :
          JsFetched(i, k, resp)
    \/ \E i \in Tasks : Aggregate(i)
    \/ BatchReturn
    \/ RunBatchReturn

SpecFile == InitFile /\ [][NextFile]_vars

(* ------------------------------ properties ----------------------------- *)

\* the tasks whose detect_single_url has returned
Done == {i \in Tasks : pc[i] = "done"}

\* the tasks whose detect_single_url has started and not returned
InFlight == {i \in Tasks : pc[i] \in {"fetching", "scanning"}}

\* C1: every task_result returned without an error has its verdict fixed by the
\* lengths of its two evidence lists: Confirmed iff core >= 1 or aux >= 2,
\* Suspected iff core = 0 and aux = 1, neither flag iff core = 0 and aux = 0.
C1_VerdictByCounts ==
    \A i \in Done :
        task_result[i].error = None =>
            LET core == Len(task_result[i].core_evidence)
                aux  == Len(task_result[i].aux_evidence)
            IN  /\ task_result[i].is_react <=> (core >= 1 \/ aux >= 2)
                /\ task_result[i].is_suspected <=> (core = 0 /\ aux = 1)
                /\ (~task_result[i].is_react /\ ~task_result[i].is_suspected)
                      <=> (core = 0 /\ aux = 0)

\* a target confirmed by two auxiliary items and no core item
C1_Witness ==
    \E i \in Done :
        /\ task_result[i].error = None
        /\ Len(task_result[i].core_evidence) = 0
        /\ Len(task_result[i].aux_evidence) >= 2
        /\ task_result[i].is_react

\* C2: the returned list has one entry per input URL, and its i-th entry is
\* the task_result of the i-th task, whose url is the i-th input URL, whatever
\* the order in which the tasks finished and whether or not they failed.
C2_BatchOrder ==
    results # None =>
        /\ Len(results[1]) = Len(urls)
        /\ \A i \in Tasks :
              /\ results[1][i] = task_result[i]
              /\ results[1][i].url = urls[i]

\* a batch returned whose second target finished first and failed
C2_Witness ==
    /\ results # None
    /\ Len(urls) >= 2
    /\ finished[1] = 2
    /\ task_result[2].error # None
    /\ task_result[1].error = None

\* C3: at most `concurrency` detect_single_url runs are in flight.
C3_BoundedInFlight == Cardinality(InFlight) <= concurrency

\* the limit is reached while a target still waits for a slot
C3_Witness ==
    /\ Cardinality(InFlight) = concurrency
    /\ \E i \in Tasks : pc[i] = "pending"

\* C4: every target eventually finishes and the batch eventually returns,
\* also with more URLs than slots and with failing targets; the batch never
\* returns while a target is unfinished.
C4_BatchTerminates ==
    /\ <>(Done = Tasks)
    /\ <>(results # None)
    /\ [](results # None => Done = Tasks)

\* a batch with more URLs than slots returned although its first target failed
C4_Witness ==
    /\ results # None
    /\ Len(urls) > concurrency
    /\ task_result[1].error # None
    /\ task_result[Len(urls)].error = None

\* the answers the script requests of task i got, once all have arrived
JsAnswers(i) ==
    IF i \in DOMAIN js_in THEN [k \in DOMAIN js_in[i] |-> js_in[i][k][1]] ELSE <<>>

\* C5: the task_result of every target is the task_result its detection gives on the
\* answers to its own requests alone, whatever the other targets of the
\* batch get (a fatal failure included) and however the tasks interleave;
\* while a target is scanning, its collected script results are those of
\* its own script requests.
C5_NonInterference ==
    /\ \A y \in Done :
          task_result[y] = DetectAlone(urls[y], use_playwright, page_in[y], JsAnswers(y))
    /\ \A y \in Tasks : pc[y] = "scanning" =>
          /\ task_result[y] = StaticExtraction(
                            RecordFinalUrl(NewResult(urls[y]), task_page_data[y]), task_page_data[y])
          /\ \A k \in ScriptSlots(y) :
                task_js_results[y][k] # None =>
                    task_js_results[y][k][1] = check_js_content(js_in[y][k][1])

\* target x, started after y, failed fatally while y is still scanning
\* with evidence already collected
C5_Witness ==
    \E x, y \in Tasks :
        /\ y < x
        /\ pc[x] = "done" /\ task_result[x].error # None
        /\ pc[y] = "scanning"
        /\ \E k \in ScriptSlots(y) :
              task_js_results[y][k] # None /\ task_js_results[y][k][1].auxiliary # <<>>

\* resp is a 200 answer whose body contains every keyword of group
BodyHasAll(resp, group) ==
    /\ resp.kind = "response"
    /\ resp.status = 200
    /\ resp.body # None
    /\ \A kw \in Range(group.keywords) : Contains(Lower(resp.body[1]), Lower(kw))

\* C6: a task_result carries the item of an auxiliary group only if one single
\* script body of the target contains every keyword of the group, case
\* ignored; keywords spread over several bodies give no item.
C6_GroupInOneBody ==
    \A i \in Done : \A g \in 1..Len(auxiliary) :
        AuxItem(auxiliary[g]) \in Range(task_result[i].aux_evidence) =>
            \E k \in ScriptSlots(i) : BodyHasAll(js_in[i][k][1], auxiliary[g])

\* one body has render(), the other this.props: no auxiliary item
C6_Witness ==
    \E i \in Done :
        /\ ScriptSlots(i) = {1, 2}
        /\ js_in[i][1][1] = [kind |-> "response", status |-> 200, body |-> Some("render()")]
        /\ js_in[i][2][1] = [kind |-> "response", status |-> 200, body |-> Some("this.props")]
        /\ task_result[i].error = None
        /\ task_result[i].aux_evidence = <<>>

\* the script request failed: it raised, or was answered with a status
\* other than 200, or its body could not be read
FailedJs(resp) ==
    \/ resp.kind = "exception"
    \/ resp.kind = "response" /\ (resp.status # 200 \/ resp.body = None)

AsEmptyBody(resp) ==
    IF FailedJs(resp) THEN [kind |-> "response", status |-> 200, body |-> Some("")]
    ELSE resp

\* C7: a failed script request yields no evidence, sets no error and does
\* not end the detection: the task_result is the one the target would get had
\* every failed script request been answered with an empty body; error is
\* set exactly when the page fetch reported an error.
C7_ScriptFailureSilent ==
    \A i \in Tasks :
        /\ \A k \in ScriptSlots(i) :
              (js_in[i][k] # None /\ FailedJs(js_in[i][k][1])) =>
                  /\ task_js_results[i][k][1] = [core |-> <<>>, auxiliary |-> <<>>]
                  /\ pc[i] = "scanning" \/ task_result[i].error = None
        /\ pc[i] = "done" =>
              /\ (task_result[i].error # None) <=> (task_page_data[i].error # None)
              /\ task_result[i] = DetectAlone(urls[i], use_playwright, page_in[i],
                                         [k \in ScriptSlots(i) |-> AsEmptyBody(js_in[i][k][1])])

\* the first script request raised, the second one's evidence is in the task_result
C7_Witness ==
    \E i \in Done :
        /\ ScriptSlots(i) = {1, 2}
        /\ js_in[i][1][1].kind = "exception"
        /\ task_result[i].error = None
        /\ task_result[i].aux_evidence # <<>>

\* C8: a target whose page fetch reported an error is done at once: no
\* script request was issued for it, its task_result has the error, empty
\* evidence lists and both flags false, and the batch returns that task_result
\* at the target's index.
C8_FatalFetchTerminates ==
    \A i \in DOMAIN task_page_data :
        task_page_data[i].error # None =>
            /\ pc[i] = "done"
            /\ ScriptSlots(i) = {}
            /\ task_result[i] = [NewResult(urls[i]) EXCEPT !.error = task_page_data[i].error]
            /\ task_result[i].core_evidence = <<>> /\ task_result[i].aux_evidence = <<>>
            /\ ~task_result[i].is_react /\ ~task_result[i].is_suspected
            /\ results # None => results[1][i] = task_result[i]

\* the first of two targets got a 404 and is returned at index 1
C8_Witness ==
    /\ results # None
    /\ Len(urls) = 2
    /\ ~use_playwright
    /\ page_in[1].kind = "response" /\ page_in[1].status = 404
    /\ results[1][1].error # None
    /\ results[1][2].error = None

\* C9: a target whose page fetch failed after reaching an address is
\* reported with that address as its final_url.
C9_FinalUrlOnFailure ==
    \A i \in Done :
        (task_page_data[i].error # None /\ task_page_data[i].redirect_url # None) =>
            /\ task_result[i].error = task_page_data[i].error
            /\ task_result[i].final_url = task_page_data[i].redirect_url[1]

\* C10: a completed page fetch has exactly one of html and error.
C10_MarkupXorError ==
    \A i \in DOMAIN task_page_data :
        (task_page_data[i].html # None) <=> (task_page_data[i].error = None)

\* the items of a list that are equal to no earlier item, in order
FirstOccurrences(items) ==
    LET keep == {k \in 1..Len(items) : \A j \in 1..(k - 1) : items[j] # items[k]}
    IN  [n \in 1..Cardinality(keep) |->
            items[CHOOSE k \in keep : Cardinality({j \in keep : j <= k}) = n]]

NoDuplicates(items) ==
    \A a, b \in 1..Len(items) : a # b => items[a] # items[b]

\* the script results of task i, by position in js_urls
JsResultsOf(i) == [k \in ScriptSlots(i) |-> task_js_results[i][k][1]]

\* the core items the stages of task i produced, in the order produced
CoreProduced(i) ==
    GlobalVarEvidence(task_page_data[i]) \o DomEvidence(task_page_data[i])
        \o JsUrlEvidence(task_page_data[i])
        \o Flatten([k \in ScriptSlots(i) |-> JsResultsOf(i)[k].core])

\* the auxiliary items the script scans of task i produced, in the order produced
AuxProduced(i) == Flatten([k \in ScriptSlots(i) |-> JsResultsOf(i)[k].auxiliary])

\* stages 2 to 4 run once more on the same fetch outputs, on top of the
\* lists already in r
ExtractedAgain(i, r) ==
    DedupEvidence(ExtendWithJsResults(StaticExtraction(r, task_page_data[i]),
                                      JsResultsOf(i)))

\* C11: in every returned result each evidence list has no two equal items
\* and is the list of first occurrences, in order, of the items the stages
\* produced; deduplicating it again changes nothing, and so does running the
\* extraction again on the same fetch outputs (no growth); a failed target
\* has both lists empty.
C11_DedupFirstOccurrences ==
    \A i \in Done :
        LET core == task_result[i].core_evidence
            aux  == task_result[i].aux_evidence
        IN  /\ NoDuplicates(core) /\ NoDuplicates(aux)
            /\ Dedup(core) = core /\ Dedup(aux) = aux
            /\ IF task_result[i].error # None
               THEN core = <<>> /\ aux = <<>>
               ELSE /\ core = FirstOccurrences(CoreProduced(i))
                    /\ aux = FirstOccurrences(AuxProduced(i))
                    /\ ExtractedAgain(i, task_result[i]).core_evidence = core
                    /\ ExtractedAgain(i, task_result[i]).aux_evidence = aux
                    /\ ExtractedAgain(i, NewResult(urls[i])).core_evidence = core
                    /\ ExtractedAgain(i, NewResult(urls[i])).aux_evidence = aux

\* two scripts produced the same core item and the same auxiliary item,
\* each kept once
C11_Witness ==
    \E i \in Done :
        /\ task_result[i].error = None
        /\ ScriptSlots(i) = {1, 2}
        /\ JsResultsOf(i)[1].core # <<>> /\ JsResultsOf(i)[1].auxiliary # <<>>
        /\ JsResultsOf(i)[2] = JsResultsOf(i)[1]
        /\ Len(task_result[i].core_evidence) < Len(CoreProduced(i))
        /\ Len(task_result[i].aux_evidence) < Len(AuxProduced(i))

HasPrefix(s, prefix) == Len(s) >= Len(prefix) /\ SubSeq(s, 1, Len(prefix)) = prefix

\* the stage a core item comes from: 1 global symbols, 2 DOM markers,
\* 3 script URLs, 4 script contents
StageOf(item) ==
    IF HasPrefix(item, GlobalVarItem("")) THEN 1
    ELSE IF HasPrefix(item, DomAttrItem("")) THEN 2
    ELSE IF HasPrefix(item, JsKeywordItem("")) THEN 4
    ELSE 3

\* the items of stage n in a core list
OfStage(core, n) == SelectSeq(core, LAMBDA item : StageOf(item) = n)

\* the list of lists: for each artifact in order, its matching items in
\* catalog order, flattened, first occurrences only
ByArtifactThenCatalog(per_artifact) == FirstOccurrences(Flatten(per_artifact))

PatternIndex(i, item) ==
    CHOOSE c \in 1..Len(js_url_patterns) :
        \E p \in 1..Len(task_page_data[i].js_urls) :
            item = JsUrlItem(task_page_data[i].js_urls[p], js_url_patterns[c])

NoUrlInFile ==
    \/ file_lines = None
    \/ \A k \in 1..Len(file_lines[1]) :
          LET line == strip(file_lines[1][k])
          IN  ~(HasPrefix(line, "http://") \/ HasPrefix(line, "https://"))

\* C13: when the file yields no URL, run_batch_from_file fails before any
\* work: no detection run is ever created or started, no page and no script
\* request is ever answered, detect_batch_urls never returns a list, and the
\* only value ever returned is the empty list of the failure path.
C13_NoUrlNoWork ==
    NoUrlInFile =>
        /\ main_pc \in {"file", "failed"}
        /\ urls = <<>> /\ pc = <<>>
        /\ sem = concurrency
        /\ task_result = Empty /\ task_page_data = Empty /\ task_js_results = Empty
        /\ page_in = Empty /\ js_in = Empty
        /\ finished = <<>> /\ results = None
        /\ run_return = IF main_pc = "failed" THEN Some(<<>>) ELSE None

\* a file whose lines are all something else than URLs was rejected
C13_Witness ==
    /\ main_pc = "failed"
    /\ file_lines # None
    /\ Len(file_lines[1]) = 3
    /\ run_return = Some(<<>>)

\* C14: every returned result has the input URL as its url; when the page
\* fetch succeeded its final_url is the URL the fetcher reported, and is the
\* input URL when the request ended at the address it was sent to.
C14_FinalUrlReached ==
    \A i \in Done :
        /\ task_result[i].url = urls[i]
        /\ task_result[i].error = None =>
              /\ task_result[i].final_url = task_page_data[i].redirect_url[1]
              /\ page_in[i].url = urls[i] => task_result[i].final_url = urls[i]

\* how far a task has come
StageRank(at) ==
    IF at = "pending" THEN 0 ELSE IF at = "fetching" THEN 1
    ELSE IF at = "scanning" THEN 2 ELSE 3

\* what holds of task i at each stage
StageState(i) ==
    /\ pc[i] = "pending" => i \notin DOMAIN task_result
    /\ pc[i] \in {"pending", "fetching"} =>
          /\ i \notin DOMAIN task_page_data
          /\ ScriptSlots(i) = {}
    /\ pc[i] = "fetching" => task_result[i] = NewResult(urls[i])
    /\ ScriptSlots(i) # {} =>
          /\ pc[i] \in {"scanning", "done"}
          /\ task_page_data[i].error = None
    /\ pc[i] = "scanning" =>
          /\ task_result[i].aux_evidence = <<>>
          /\ task_result[i].core_evidence =
                GlobalVarEvidence(task_page_data[i]) \o DomEvidence(task_page_data[i])
                    \o JsUrlEvidence(task_page_data[i])
          /\ ~task_result[i].is_react /\ ~task_result[i].is_suspected
    /\ pc[i] = "done" =>
          \A k \in ScriptSlots(i) : task_js_results[i][k] # None /\ js_in[i][k] # None

\* what a step may do to task i
StageStep(i) ==
    /\ StageRank(pc'[i]) >= StageRank(pc[i])
    /\ pc[i] = "done" =>
          /\ task_result'[i] = task_result[i]
          /\ task_page_data'[i] = task_page_data[i]
          /\ ScriptSlots(i) # {} => task_js_results'[i] = task_js_results[i]
    /\ (pc[i] = "fetching" /\ pc'[i] = "done" /\ task_result'[i].error = None) =>
          task_page_data'[i].js_urls = <<>>
    /\ (pc[i] = "scanning" /\ pc'[i] = "done") =>
          /\ \A k \in ScriptSlots(i) : task_js_results[i][k] # None
          /\ task_js_results'[i] = task_js_results[i]

\* C15: a task goes through pending, fetching, scanning, done in this order
\* and never back; it has script requests only after its page fetch
\* succeeded; while it scans, its result holds the static evidence only and
\* no verdict; it is done only when every script request has returned, and
\* from then on its result and its script results never change.
C15_StagesInOrder ==
    /\ [](\A i \in Tasks : StageState(i))
    /\ [][\A i \in Tasks : StageStep(i)]_vars

\* a target with two scripts is done, with script evidence in its verdict,
\* while another target has not started its page fetch
C15_Witness ==
    \E i, j \in Tasks :
        /\ pc[i] = "done" /\ ScriptSlots(i) = {1, 2}
        /\ task_result[i].aux_evidence # <<>>
        /\ task_result[i].is_suspected
        /\ pc[j] = "pending"

\* the script requests of task i that are issued and have not returned
ScriptsInFlight(i) ==
    IF pc[i] = "scanning" THEN {k \in ScriptSlots(i) : js_in[i][k] = None} ELSE {}

\* the tasks with a script request in flight
ScanningTasks == {i \in Tasks : ScriptsInFlight(i) # {}}

\* C16: a task that got past its page fetch has one script request per
\* entry of js_urls, all of them in flight together from the moment the
\* scan starts; the tasks with script requests in flight are at most
\* `concurrency` many and each of them holds a slot of the semaphore.
C16_ScriptFanOut ==
    /\ [](/\ \A i \in Tasks :
                (pc[i] \in {"scanning", "done"} /\ task_page_data[i].error = None) =>
                    ScriptSlots(i) = 1..Len(task_page_data[i].js_urls)
          /\ Cardinality(ScanningTasks) <= concurrency
          /\ ScanningTasks \subseteq InFlight
          /\ sem = concurrency - Cardinality(InFlight))
    /\ [][\A i \in Tasks :
            (pc[i] = "fetching" /\ pc'[i] = "scanning") =>
                /\ Len(task_page_data'[i].js_urls) >= 1
                /\ ScriptsInFlight(i)' = 1..Len(task_page_data'[i].js_urls)]_vars

\* two targets hold the two slots and each has both of its script requests
\* in flight
C16_Witness ==
    /\ concurrency = 2
    /\ sem = 0
    /\ \E i, j \in Tasks :
          /\ i # j
          /\ pc[i] = "scanning" /\ pc[j] = "scanning"
          /\ Len(task_page_data[i].js_urls) = 2 /\ ScriptsInFlight(i) = {1, 2}
          /\ Len(task_page_data[j].js_urls) = 2 /\ ScriptsInFlight(j) = {1, 2}

\* the request raised (unreachable, timed out), or the body could not be read
FetchBroke(resp) ==
    resp.kind = "exception" \/ (resp.kind = "response" /\ resp.html = None /\ resp.status = 200)

\* C17: the aiohttp page fetch reports an error exactly when the request
\* broke or the terminal response has a status outside 200..299; a terminal
\* response with a status in 200..299 gives markup and no error, and the
\* detection goes on to the extraction stages.
C17_FatalExactly ==
    \A i \in DOMAIN task_page_data :
        ~use_playwright =>
            LET resp == page_in[i]
                success == resp.kind = "response" /\ resp.status \in 200..299
            IN  /\ (task_page_data[i].error # None) <=> (FetchBroke(resp) \/ ~success)
                /\ (success /\ ~FetchBroke(resp)) =>
                      /\ task_page_data[i].html # None
                      /\ task_page_data[i].error = None
                      /\ task_result[i].error = None

\* C18: in every returned result is_react and is_suspected are not both
\* true; with error set both are false; is_suspected comes with an empty
\* core list and exactly one auxiliary item.
C18_FlagsExclusive ==
    \A i \in Done :
        /\ ~(task_result[i].is_react /\ task_result[i].is_suspected)
        /\ task_result[i].error # None =>
              ~task_result[i].is_react /\ ~task_result[i].is_suspected
        /\ task_result[i].is_suspected =>
              /\ task_result[i].core_evidence = <<>>
              /\ Len(task_result[i].aux_evidence) = 1

\* a result with a core item and exactly one auxiliary item: confirmed,
\* not suspected
C18_Witness ==
    \E i \in Done :
        /\ task_result[i].error = None
        /\ Len(task_result[i].core_evidence) >= 1
        /\ Len(task_result[i].aux_evidence) = 1
        /\ task_result[i].is_react /\ ~task_result[i].is_suspected

\* for each body the environment serves, the catalog positions of the
\* auxiliary groups whose keywords it all contains, case ignored
GroupsInBody ==
    [body \in JsBodies |->
        {g \in 1..Len(auxiliary) :
            \A kw \in Range(auxiliary[g].keywords) : Contains(Lower(body), Lower(kw))}]

\* the catalog positions of the auxiliary groups some script body of task i
\* satisfies
GroupsSatisfied(i) ==
    UNION { IF FailedJs(js_in[i][k][1]) THEN {}
            ELSE GroupsInBody[js_in[i][k][1].body[1]] : k \in ScriptSlots(i) }

\* C19: the auxiliary list of a returned result has one item for each group
\* some script body satisfies, however many bodies satisfy it, so never
\* more items than the catalog has groups; with no core evidence the target
\* is Suspected when exactly one group is satisfied and Confirmed only when
\* two distinct groups are.
C19_GroupCountedOnce ==
    \A i \in Done :
        task_result[i].error = None =>
            LET aux == task_result[i].aux_evidence
            IN  /\ Len(aux) <= Len(auxiliary)
                /\ Len(aux) = Cardinality(GroupsSatisfied(i))
                /\ Range(aux) = {AuxItem(auxiliary[g]) : g \in GroupsSatisfied(i)}
                /\ task_result[i].core_evidence = <<>> =>
                      /\ task_result[i].is_suspected <=> Cardinality(GroupsSatisfied(i)) = 1
                      /\ task_result[i].is_react <=> Cardinality(GroupsSatisfied(i)) >= 2

\* both scripts of a target satisfy the props group and no other; no core
\* evidence: one auxiliary item, Suspected
C19_Witness ==
    \E i \in Done :
        /\ ScriptSlots(i) = {1, 2}
        /\ task_result[i].error = None
        /\ task_result[i].core_evidence = <<>>
        /\ \A k \in {1, 2} : BodyHasAll(js_in[i][k][1], auxiliary[3])
        /\ GroupsSatisfied(i) = {3}
        /\ Len(task_result[i].aux_evidence) = 1
        /\ task_result[i].is_suspected /\ ~task_result[i].is_react

====
